---- MODULE Spec2Model ----
(***************************************************************************)
(* Job Monitor (src/main.py): the ingestion / deduplication / digest       *)
(* pipeline.  Feeds and pages are fetched, postings are filtered by        *)
(* keyword and location, persisted once per fingerprint in the SQLite      *)
(* table `jobs`, and reported to Telegram in a digest.                     *)
(*                                                                         *)
(* Strings are sequences of characters.  The character BLK abbreviates a   *)
(* run of BlockLen filler characters (a lower-case letter that occurs in   *)
(* no keyword, no allowed location and no separator), so that texts of     *)
(* several thousand characters keep their true length.                     *)
(***************************************************************************)
EXTENDS Integers, Sequences, FiniteSets, TLC

VARIABLES
    table,      \* the rows of the SQLite table `jobs`, in rowid order
    now,        \* the wall clock: the instant datetime.now() returns
    stats,      \* JobMonitor.stats: total_viewed, total_added
    config,     \* what JobMonitor.load_config read: resources, keywords, telegram
    ev,         \* history: the last operation, its inputs and its results
    calls       \* the add_job calls of overlapping writers, and where each is

vars == <<table, now, stats, config, ev, calls>>

----------------------------------------------------------------------------
(* Bounds of the model *)

\* length of the run of filler characters that BLK stands for
BlockLen == 2000
\* rows the table may hold
MaxRows == 2
\* entries one fetch of one source may return
MaxFetch == 2
\* rows the table may hold when the store is called directly
MaxStoreRows == 3
\* hashes one mark_as_sent call may list
MaxMarked == 2
\* cap of the total_viewed counter in the runs that report
MaxViewed == 1
\* cap of the total_viewed counter in the runs that only scan
MaxScanViewed == 3
\* days the clock may run
MaxDays == 1
\* keywords of a configuration handed to the keyword filter alone
MaxKeywords == 2
\* longest keyword and longest title handed to the keyword filter
MaxWordLen == 2
\* longest description and longest tags handed to the keyword filter
MaxFieldLen == 1
\* entries of an allow-list handed to the location filter alone
MaxAllowed == 2
\* longest allowed substring and longest location handed to the location filter
MaxLocationLen == 2
\* lines of a text handed to split_digest and send_digest alone
MaxLines == 4
\* postings of a list handed to create_digest alone
MaxJobs == 3
\* writers whose add_job calls overlap
MaxWriters == 2

----------------------------------------------------------------------------
(* Strings *)

BLK == "~"

CharLen(c) ==
    IF c = BLK THEN BlockLen ELSE 1

RECURSIVE StrLen(_)
StrLen(s) ==
    IF s = <<>> THEN 0 ELSE CharLen(Head(s)) + StrLen(Tail(s))

\* str.lower() on the model's alphabet
LowerChar(c) ==
    CASE c = "P" -> "p"
      [] c = "Y" -> "y"
      [] c = "R" -> "r"
      [] c = "G" -> "g"
      [] OTHER -> c

Lower(s) ==
    [i \in 1..Len(s) |-> LowerChar(s[i])]

\* Python's `sub in s`
Contains(sub, s) ==
    \E i \in 0..(Len(s) - Len(sub)) : SubSeq(s, i + 1, i + Len(sub)) = sub

\* number of decimal digits of str(n), n >= 0
Digits(n) ==
    IF n < 10 THEN 1 ELSE IF n < 100 THEN 2 ELSE IF n < 1000 THEN 3 ELSE 4

----------------------------------------------------------------------------
(* Time.  The clock is read at sampled instants only: instant t is hour
   t \div 2 after the start of day 02 of the month, at second 0 and
   microsecond 0 (t even) or 500000 (t odd).  datetime.isoformat() prints
   the microseconds only when they are not 0, so the text has two lengths. *)

\* timedelta(hours=24), in instants
Window(hours) ==
    2 * hours

Instants ==
    {t \in 0..(48 * MaxDays) : (t % 48) \in {0, 1}}

Digit(d) ==
    48 + d

\* datetime.isoformat(): "DDTHH" and ".5" when the microseconds are not 0;
\* the year, the month and ":00:00" are the same in every text and left out.
\* Characters are their code points: "T" is 84, "." is 46.
isoformat(t) ==
    LET T == t + 48
        day == 1 + (T \div 48)
        hour == (T % 48) \div 2
        base == <<Digit(day \div 10), Digit(day % 10), 84,
                  Digit(hour \div 10), Digit(hour % 10)>>
    IN  IF T % 2 = 0 THEN base ELSE base \o <<46, Digit(5)>>

\* datetime.fromisoformat()
fromisoformat(s) ==
    LET day == (s[1] - 48) * 10 + (s[2] - 48)
        hour == (s[4] - 48) * 10 + (s[5] - 48)
        frac == IF Len(s) > 5 THEN 1 ELSE 0
    IN  ((day - 1) * 24 + hour) * 2 + frac - 48

\* a > b for TEXT values (SQLite's BINARY collation, Python's str order)
RECURSIVE TextGreater(_, _)
TextGreater(a, b) ==
    IF a = <<>> THEN FALSE
    ELSE IF b = <<>> THEN TRUE
    ELSE IF Head(a) # Head(b) THEN Head(a) > Head(b)
    ELSE TextGreater(Tail(a), Tail(b))

----------------------------------------------------------------------------
(* class Job *)

\* None for Optional[datetime] is <<>>, a datetime t is <<t>>
None == <<>>

\* Job(...): __post_init__ sets created_at to datetime.now()
Job(title, description, link, source, location, company, tags, published, t) ==
    [title |-> title, description |-> description, link |-> link,
     source |-> source, location |-> location, company |-> company,
     tags |-> tags, published |-> published, created_at |-> t]

\* f"{self.title}|{self.link}|{self.source}"
unique_string(job) ==
    job.title \o <<"|">> \o job.link \o <<"|">> \o job.source

\* hashlib.md5(...).hexdigest(), taken as collision-free: the identity
md5(s) ==
    s

get_hash(job) ==
    md5(unique_string(job))

to_dict(job) ==
    [title |-> job.title, description |-> job.description, link |-> job.link,
     source |-> job.source, location |-> job.location, company |-> job.company,
     tags |-> job.tags,
     published |-> IF job.published = None THEN None
                   ELSE isoformat(job.published[1]),
     created_at |-> isoformat(job.created_at)]

----------------------------------------------------------------------------
(* class DatabaseManager: the table `jobs` *)

Hashes(tbl) ==
    {tbl[i].hash : i \in 1..Len(tbl)}

\* the row INSERT INTO jobs makes: id is the next rowid, sent_to_telegram
\* takes its DEFAULT FALSE.  `at` is history, not a column: the instant
\* job.created_at that the text created_at was printed from
NewRow(tbl, job) ==
    LET d == to_dict(job)
    IN  [id |-> Len(tbl) + 1, title |-> d.title, description |-> d.description,
         link |-> d.link, source |-> d.source, location |-> d.location,
         company |-> d.company, tags |-> d.tags, published |-> d.published,
         created_at |-> d.created_at, hash |-> get_hash(job),
         sent_to_telegram |-> FALSE, at |-> job.created_at]

\* add_job with INSERT OR REPLACE semantics
add_job_replace(tbl, job) ==
    IF get_hash(job) \in Hashes(tbl)
    THEN [ret |-> FALSE,
          table |-> [i \in 1..Len(tbl) |->
                       IF tbl[i].hash = get_hash(job)
                       THEN [NewRow(tbl, job) EXCEPT !.id = i] ELSE tbl[i]]]
    ELSE [ret |-> TRUE, table |-> Append(tbl, NewRow(tbl, job))]

\* add_job on a table whose hash column is not UNIQUE
add_job_no_unique(tbl, job) ==
    [ret |-> TRUE, table |-> Append(tbl, NewRow(tbl, job))]

\* add_job: the INSERT raises sqlite3.IntegrityError when hash is already
\* there (hash TEXT UNIQUE); the handler turns that into False
add_job(tbl, job) ==
    IF get_hash(job) \in Hashes(tbl)
    THEN [ret |-> FALSE, table |-> tbl]
    ELSE [ret |-> TRUE, table |-> Append(tbl, NewRow(tbl, job))]

\* the Job get_new_jobs builds from a row
RowJob(row) ==
    Job(row.title, row.description, row.link, row.source, row.location,
        row.company, row.tags,
        IF row.published = None THEN None
        ELSE <<fromisoformat(row.published)>>,
        fromisoformat(row.created_at))

\* the WHERE clause without `AND sent_to_telegram = FALSE`
SelectedAnySent(tbl, t, hours) ==
    {i \in 1..Len(tbl) :
        TextGreater(tbl[i].created_at, isoformat(t - Window(hours)))}

\* WHERE created_at > ? AND sent_to_telegram = FALSE
Selected(tbl, t, hours) ==
    {i \in 1..Len(tbl) :
        /\ TextGreater(tbl[i].created_at, isoformat(t - Window(hours)))
        /\ tbl[i].sent_to_telegram = FALSE}

\* the orders ORDER BY created_at DESC allows: rows of equal created_at
\* come in an order SQLite does not promise
Orderings(tbl, S) ==
    {o \in [1..Cardinality(S) -> S] :
        /\ \A i, j \in 1..Cardinality(S) : i # j => o[i] # o[j]
        /\ \A i, j \in 1..Cardinality(S) :
             i < j => ~TextGreater(tbl[o[j]].created_at, tbl[o[i]].created_at)}

\* get_new_jobs: the lists of Job it may return at instant t
get_new_jobs(tbl, t, hours) ==
    LET S == Selected(tbl, t, hours)
    IN  {[k \in 1..Cardinality(S) |-> RowJob(tbl[o[k]])] : o \in Orderings(tbl, S)}

\* mark_as_sent whose UPDATE has no WHERE clause
mark_as_sent_all(tbl, job_hashes) ==
    [i \in 1..Len(tbl) |->
        IF job_hashes # <<>>
        THEN [tbl[i] EXCEPT !.sent_to_telegram = TRUE]
        ELSE tbl[i]]

\* mark_as_sent: one UPDATE ... WHERE hash = ? per listed hash
mark_as_sent(tbl, job_hashes) ==
    [i \in 1..Len(tbl) |->
        IF \E k \in 1..Len(job_hashes) : job_hashes[k] = tbl[i].hash
        THEN [tbl[i] EXCEPT !.sent_to_telegram = TRUE]
        ELSE tbl[i]]

----------------------------------------------------------------------------
(* class JobFilter, class JobLocationFilter *)

\* [kw.lower() for kw in keywords]
LowerAll(strs) ==
    [k \in 1..Len(strs) |-> Lower(strs[k])]

\* f"{job.title} {job.description} {job.tags}", the case of the text kept
text_to_check_as_written(job) ==
    job.title \o <<" ">> \o job.description \o <<" ">> \o job.tags

\* f"{job.title} {job.description} {job.tags}".lower()
text_to_check(job) ==
    Lower(job.title \o <<" ">> \o job.description \o <<" ">> \o job.tags)

\* JobFilter.matches, with self.keywords the lowered keyword list
matches(keywords, job) ==
    \E k \in 1..Len(keywords) : Contains(keywords[k], text_to_check(job))

\* JobLocationFilter.is_location_allowed, with the lowered allow-list
is_location_allowed(allowed_locations, job) ==
    \E k \in 1..Len(allowed_locations) :
        Contains(allowed_locations[k], Lower(job.location))

\* JobLocationFilter(["gdansk", "remote", "poland"])
location_filter ==
    LowerAll(<< <<"g","d","a","n","s","k">>, <<"r","e","m","o","t","e">>,
                <<"p","o","l","a","n","d">> >>)

\* JobFilter(self.keywords)
job_filter(cfg) ==
    LowerAll(cfg.keywords)

----------------------------------------------------------------------------
(* class JobParser.  What a fetch finds is the environment's: a feed is a
   list of entries, a page a list of containers. *)

\* entry.get('title', ''), entry.get('description', ''), entry.get('link', '');
\* location, company and tags keep the defaults of Job
parse_rss(entries, source_name, t) ==
    [k \in 1..Len(entries) |->
        Job(entries[k].title, entries[k].description, entries[k].link,
            source_name, <<>>, <<>>, <<>>, entries[k].published, t)]

\* urljoin(url, href): an href that starts with "/" is joined to the site
urljoin(url, href) ==
    IF href # <<>> /\ Head(href) = "/" THEN url \o href ELSE href

\* text.split('—')[0]: the text before the first dash ("-" is the model's dash)
RECURSIVE BeforeDash(_)
BeforeDash(s) ==
    IF s = <<>> \/ Head(s) = "-" THEN <<>>
    ELSE <<Head(s)>> \o BeforeDash(Tail(s))

RECURSIVE SelectSeq2(_, _)
SelectSeq2(s, keep) ==
    IF s = <<>> THEN <<>>
    ELSE IF Head(keep) THEN <<Head(s)>> \o SelectSeq2(Tail(s), Tail(keep))
    ELSE SelectSeq2(Tail(s), Tail(keep))

\* a container without a title element is skipped; the company is the
\* description's text before the dash
parse_html(containers, url, source_name, t) ==
    LET jobs == [k \in 1..Len(containers) |->
                   Job(containers[k].title, containers[k].description,
                       urljoin(url, containers[k].link), source_name,
                       containers[k].location,
                       BeforeDash(containers[k].description), <<>>, None, t)]
    IN  SelectSeq2(jobs, [k \in 1..Len(containers) |-> containers[k].title_elem])

----------------------------------------------------------------------------
(* JobMonitor.scan_all_sources *)

\* JobMonitor.__init__: self.stats
InitStats ==
    [total_viewed |-> 0, total_added |-> 0]

\* the condition under which a raw posting is offered to add_job, with OR
AcceptsEither(cfg, job) ==
    \/ matches(job_filter(cfg), job)
    \/ is_location_allowed(location_filter, job)

\* if self.job_filter.matches(job) and self.location_filter.is_location_allowed(job)
Accepts(cfg, job) ==
    /\ matches(job_filter(cfg), job)
    /\ is_location_allowed(location_filter, job)

\* the counters after one more viewed posting, `ret` what add_job returned
\* (FALSE when it was not called); here 'added' counts every call
CountCalls(st, called, ret) ==
    [total_viewed |-> st.total_viewed + 1,
     total_added |-> st.total_added + (IF called THEN 1 ELSE 0)]

Count(st, called, ret) ==
    [total_viewed |-> st.total_viewed + 1,
     total_added |-> st.total_added + (IF called /\ ret THEN 1 ELSE 0)]

\* for job in jobs: the scan's state s is [table, stats, raw, calls,
\* inserted, visited, aborted]
RECURSIVE ProcessJobs(_, _, _)
ProcessJobs(cfg, jobs, s) ==
    IF jobs = <<>> THEN s
    ELSE LET job == Head(jobs)
             called == Accepts(cfg, job)
             r == IF called THEN add_job(s.table, job)
                  ELSE [ret |-> FALSE, table |-> s.table]
         IN  ProcessJobs(cfg, Tail(jobs),
                 [s EXCEPT !.table = r.table,
                           !.stats = Count(s.stats, called, r.ret),
                           !.calls = @ + (IF called THEN 1 ELSE 0),
                           !.inserted = @ + (IF r.ret THEN 1 ELSE 0)])

\* a descriptor is the JSON object `keys` says which of "name", "type",
\* "url" it has.  The keys the try block reads before and after the fetch:
KeysRead(resource) ==
    IF "type" \notin resource.keys THEN {"type"}
    ELSE IF resource.type \in {"rss", "html"} THEN {"type", "url", "name"}
    ELSE {"type", "name"}

\* the jobs the parser returns: [] when the fetch or the parse raised
Fetch(resource, found, t) ==
    IF ~found.ok THEN <<>>
    ELSE IF resource.type = "rss"
         THEN parse_rss(found.items, resource.name, t)
    ELSE IF resource.type = "html"
         THEN parse_html(found.items, resource.url, resource.name, t)
    ELSE <<>>

\* whether the body fetches: resource['type'], resource['url'] and
\* resource['name'] are read first, and a missing one raises KeyError
Fetches(resource) ==
    /\ {"type", "url", "name"} \subseteq resource.keys
    /\ resource.type \in {"rss", "html"}

\* the except handler logs resource['name']: a descriptor without a name
\* raises KeyError again, out of scan_all_sources
Handler(resource) ==
    "name" \in resource.keys

\* one pass of `for resource in self.resources`
ScanResource(cfg, resource, found, s, t) ==
    LET jobs == IF Fetches(resource) THEN Fetch(resource, found, t) ELSE <<>>
        s1 == ProcessJobs(cfg, jobs,
                  [s EXCEPT !.raw = @ + Len(jobs), !.visited = @ + 1])
        raised == ~(KeysRead(resource) \subseteq resource.keys)
    IN  IF raised /\ ~Handler(resource)
        THEN [s1 EXCEPT !.aborted = TRUE]
        ELSE s1

RECURSIVE ScanFrom(_, _, _, _, _)
ScanFrom(cfg, i, fetched, s, t) ==
    IF i > Len(cfg.resources) \/ s.aborted THEN s
    ELSE ScanFrom(cfg, i + 1, fetched,
                  ScanResource(cfg, cfg.resources[i], fetched[i], s, t), t)

\* scan_all_sources: `fetched` is what each source's fetch finds
scan_all_sources(cfg, tbl, st, fetched, t) ==
    ScanFrom(cfg, 1, fetched,
             [table |-> tbl, stats |-> st, raw |-> 0, calls |-> 0,
              inserted |-> 0, visited |-> 0, aborted |-> FALSE], t)

----------------------------------------------------------------------------
(* Texts.  A text is the sequence of its lines; a line records its length
   (the "\n" that ends it not counted), how many blanks it starts with,
   what it shows, whether a "\n" ends it and whether it was cut. *)

\* TelegramBot.__init__: self.max_message_length
max_message_length == 4096

\* the reserve of `self.max_message_length - 200`
Reserve == 200

TextLine(kind, len, lead, ref, num) ==
    [kind |-> kind, len |-> len, lead |-> lead, ref |-> ref, num |-> num,
     nl |-> TRUE, cut |-> FALSE]

BlankLine ==
    TextLine("blank", 0, 0, <<>>, 0)

\* len(text)
RECURSIVE TextLen(_)
TextLen(text) ==
    IF text = <<>> THEN 0
    ELSE Head(text).len + (IF Head(text).nl THEN 1 ELSE 0) + TextLen(Tail(text))

----------------------------------------------------------------------------
(* TelegramBot.create_digest *)

\* datetime.now().strftime('%d.%m.%Y'): the day instant t falls on
Date(t) ==
    t \div Window(24)

\* the header: title line with the date of the call, blank line and, with
\* show_stats, the counters
Header(tg, jobs, st, t) ==
    <<TextLine("title", 35, 0, <<>>, Date(t)), BlankLine>>
    \o (IF tg.show_stats
        THEN <<TextLine("viewed", 24 + Digits(st.total_viewed), 0, <<>>, st.total_viewed),
               TextLine("added", 17 + Digits(st.total_added), 0, <<>>, st.total_added),
               TextLine("count", 15 + Digits(Len(jobs)), 0, <<>>, Len(jobs)),
               TextLine("time", 17, 0, <<>>, 0),
               BlankLine,
               TextLine("rule", 32, 0, <<>>, 0),
               BlankLine>>
        ELSE <<>>)

\* the keys of jobs_by_source, in the order of their first posting
RECURSIVE SourceOrder(_, _)
SourceOrder(jobs, seen) ==
    IF jobs = <<>> THEN <<>>
    ELSE IF Head(jobs).source \in seen THEN SourceOrder(Tail(jobs), seen)
    ELSE <<Head(jobs).source>>
         \o SourceOrder(Tail(jobs), seen \cup {Head(jobs).source})

\* jobs_by_source[source]
RECURSIVE SourceJobs(_, _)
SourceJobs(jobs, source) ==
    IF jobs = <<>> THEN <<>>
    ELSE IF Head(jobs).source = source
         THEN <<Head(jobs)>> \o SourceJobs(Tail(jobs), source)
    ELSE SourceJobs(Tail(jobs), source)

Min(a, b) ==
    IF a < b THEN a ELSE b

\* job_line: f"{i}. [{job.title}]({job.link}){location}{company}\n" and,
\* with include_description, f"   _{desc_preview}_\n"
JobLine(tg, job, i) ==
    LET location == IF tg.show_location /\ job.location # <<>>
                    THEN 3 + StrLen(job.location) ELSE 0
        company == IF tg.show_company /\ job.company # <<>>
                   THEN 3 + StrLen(job.company) ELSE 0
        preview == IF StrLen(job.description) > 100 THEN 103
                   ELSE StrLen(job.description)
    IN  <<TextLine("job", Digits(i) + 6 + StrLen(job.title) + StrLen(job.link)
                          + location + company, 0, get_hash(job), i)>>
        \o (IF tg.include_description /\ job.description # <<>>
            THEN <<TextLine("desc", 5 + preview, 3, get_hash(job), i)>>
            ELSE <<>>)

\* f"   ... и еще {n} вакансий\n"
MoreLine(n) ==
    TextLine("more", 22 + Digits(n), 3, <<>>, n)

\* for i, job in enumerate(displayed_jobs, 1): `used` is
\* len("".join(digest_parts)), `section` the source_section so far
RECURSIVE DisplayLoop(_, _, _, _, _, _)
DisplayLoop(tg, used, section, source_jobs, displayed, i) ==
    IF i > displayed THEN section
    ELSE LET job_line == JobLine(tg, source_jobs[i], i)
         IN  IF used + TextLen(section) + TextLen(job_line)
                    > max_message_length - Reserve
             THEN IF Len(source_jobs) > displayed
                  THEN section \o <<MoreLine(Len(source_jobs) - i + 1)>>
                  ELSE section
             ELSE DisplayLoop(tg, used, section \o job_line, source_jobs,
                              displayed, i + 1)

\* the source_section with displayed_jobs = source_jobs
SourceSectionUncapped(tg, used, source, source_jobs) ==
    LET head == <<TextLine("section", 16 + StrLen(source) + Digits(Len(source_jobs)),
                           0, source, Len(source_jobs))>>
    IN  DisplayLoop(tg, used, head, source_jobs, Len(source_jobs), 1)
        \o (IF Len(source_jobs) > tg.max_jobs_per_source
            THEN <<MoreLine(Len(source_jobs) - tg.max_jobs_per_source)>>
            ELSE <<>>)
        \o <<BlankLine>>

\* the source_section appended to digest_parts for one source
SourceSection(tg, used, source, source_jobs) ==
    LET displayed == Min(Len(source_jobs), tg.max_jobs_per_source)
        head == <<TextLine("section", 16 + StrLen(source) + Digits(Len(source_jobs)),
                           0, source, Len(source_jobs))>>
        body == DisplayLoop(tg, used, head, source_jobs, displayed, 1)
    IN  body
        \o (IF Len(source_jobs) > tg.max_jobs_per_source
            THEN <<MoreLine(Len(source_jobs) - tg.max_jobs_per_source)>>
            ELSE <<>>)
        \o <<BlankLine>>

\* "📝 *Дайджест сокращен из-за ограничений Telegram*", no "\n" after it
Marker ==
    [TextLine("marker", 48, 0, <<>>, 0) EXCEPT !.nl = FALSE]

\* for source, source_jobs in jobs_by_source.items()
RECURSIVE SourcesLoop(_, _, _, _)
SourcesLoop(tg, digest, jobs, sources) ==
    IF sources = <<>> THEN digest
    ELSE LET grown == digest \o SourceSection(tg, TextLen(digest), Head(sources),
                                              SourceJobs(jobs, Head(sources)))
         IN  IF TextLen(grown) > max_message_length - Reserve
             THEN grown \o <<Marker>>
             ELSE SourcesLoop(tg, grown, jobs, Tail(sources))

\* "📋 Новых вакансий за последние 24 часа не найдено."
EmptyMessage ==
    << [TextLine("empty", 49, 0, <<>>, 0) EXCEPT !.nl = FALSE] >>

create_digest(tg, jobs, st, t) ==
    IF jobs = <<>> THEN EmptyMessage
    ELSE SourcesLoop(tg, Header(tg, jobs, st, t), jobs, SourceOrder(jobs, {}))

\* the hashes of the postings a text shows as a numbered line
Rendered(text) ==
    {text[k].ref : k \in {n \in 1..Len(text) : text[n].kind = "job"}}

----------------------------------------------------------------------------
(* TelegramBot.split_digest, TelegramBot.send_digest *)

\* digest.split('\n'): the lines, and one more empty line when the text
\* ends with "\n" (or is empty)
Split(text) ==
    IF text = <<>> \/ text[Len(text)].nl
    THEN text \o <<BlankLine>>
    ELSE [k \in 1..Len(text) |-> [text[k] EXCEPT !.nl = TRUE]]

\* str.strip() of a part whose lines each end with "\n": blank lines at
\* both ends go, and so do the blanks the first line starts with and the
\* last "\n"
RECURSIVE StripLeft(_)
StripLeft(part) ==
    IF part = <<>> THEN <<>>
    ELSE IF Head(part).len = Head(part).lead THEN StripLeft(Tail(part))
    ELSE <<[Head(part) EXCEPT !.len = @ - Head(part).lead, !.lead = 0]>>
         \o Tail(part)

RECURSIVE StripRight(_)
StripRight(part) ==
    IF part = <<>> THEN <<>>
    ELSE IF part[Len(part)].len = part[Len(part)].lead
         THEN StripRight(SubSeq(part, 1, Len(part) - 1))
    ELSE [part EXCEPT ![Len(part)].nl = FALSE]

Strip(part) ==
    StripRight(StripLeft(part))

\* line[:self.max_message_length - 200] + "..."
Truncated(line) ==
    << [line EXCEPT !.len = Min(@, max_message_length - Reserve) + 3,
                    !.nl = FALSE, !.cut = TRUE] >>

\* for line in lines: `parts` and `current_part` so far
RECURSIVE SplitLoop(_, _, _)
SplitLoop(lines, parts, current_part) ==
    IF lines = <<>>
    THEN IF current_part # <<>> THEN Append(parts, Strip(current_part)) ELSE parts
    ELSE LET line == Head(lines)
             test_part == Append(current_part, line)
         IN  IF TextLen(test_part) > max_message_length - Reserve
             THEN IF current_part # <<>>
                  THEN SplitLoop(Tail(lines), Append(parts, Strip(current_part)),
                                 <<line>>)
                  ELSE SplitLoop(Tail(lines), Append(parts, Truncated(line)), <<>>)
             ELSE SplitLoop(Tail(lines), parts, test_part)

split_digest(digest) ==
    SplitLoop(Split(digest), <<>>, <<>>)

\* f"📋 *Дайджест ({i+1}/{len(parts)})*\n\n" if len(parts) > 1 else ""
part_header(i, n) ==
    IF n > 1
    THEN <<TextLine("part", 16 + Digits(i) + Digits(n), 0, <<>>, i), BlankLine>>
    ELSE <<>>

\* the messages send_digest hands to send_message, in order
Messages(digest) ==
    IF TextLen(digest) <= max_message_length THEN <<digest>>
    ELSE LET parts == split_digest(digest)
         IN  [i \in 1..Len(parts) |-> part_header(i, Len(parts)) \o parts[i]]

\* send_digest returning after the last part's result only
send_digest_last(digest, accept) ==
    accept[Len(Messages(digest))]

\* send_digest: `accept` says which sends the endpoint accepts.  One
\* message: its result; several: success_count == len(parts)
send_digest(digest, accept) ==
    \A i \in 1..Len(Messages(digest)) : accept[i]

\* send_digest_stop: the loop leaving at the first part that is refused
RECURSIVE SendLoopStop(_, _, _, _)
SendLoopStop(messages, accept, i, sent) ==
    IF i > Len(messages) THEN sent
    ELSE IF ~accept[i] THEN Append(sent, messages[i])
    ELSE SendLoopStop(messages, accept, i + 1, Append(sent, messages[i]))

\* for i, part in enumerate(parts): the messages handed to send_message so
\* far; the loop has no way out before the last part
RECURSIVE SendLoop(_, _, _, _)
SendLoop(messages, accept, i, sent) ==
    IF i > Len(messages) THEN sent
    ELSE SendLoop(messages, accept, i + 1, Append(sent, messages[i]))

\* the messages one call of send_digest hands to send_message, in order
Sends(digest, accept) ==
    IF TextLen(digest) <= max_message_length THEN <<digest>>
    ELSE SendLoop(Messages(digest), accept, 1, <<>>)

----------------------------------------------------------------------------
(* JobMonitor.send_daily_report *)

\* sent_hashes = [job.get_hash() for job in new_jobs]
sent_hashes(new_jobs) ==
    [k \in 1..Len(new_jobs) |-> get_hash(new_jobs[k])]

\* the table after the report: marked when the digest was sent successfully
\* and the process did not stop before mark_as_sent
send_daily_report(cfg, tbl, st, new_jobs, accept, stopped, t) ==
    IF new_jobs = <<>> THEN tbl
    ELSE IF send_digest(create_digest(cfg.telegram, new_jobs, st, t), accept)
            /\ ~stopped
         THEN mark_as_sent(tbl, sent_hashes(new_jobs))
    ELSE tbl

----------------------------------------------------------------------------
(* What the environment supplies: configuration files, feeds, pages *)

Str_py == <<"p", "y">>
Str_Py == <<"P", "y">>
Str_Go == <<"G", "o">>
Str_remote == <<"r", "e", "m", "o", "t", "e">>
Str_Remote == <<"R", "e", "m", "o", "t", "e">>
Str_Poland == <<"P", "o", "l", "a", "n", "d">>
Str_H == <<"H">>
Str_R == <<"R">>
\* a source name of more than max_message_length characters
Str_Long == <<"L", BLK, BLK>>

\* the default of load_config, and a configuration file that sets every key
DefaultTelegram ==
    [max_jobs_per_source |-> 10, show_stats |-> TRUE, show_company |-> TRUE,
     show_location |-> TRUE, include_description |-> FALSE]

TerseTelegram ==
    [max_jobs_per_source |-> 1, show_stats |-> FALSE, show_company |-> TRUE,
     show_location |-> FALSE, include_description |-> TRUE]

Resource(keys, name, type, url) ==
    [keys |-> keys, name |-> name, type |-> type, url |-> url]

AllKeys == {"name", "type", "url"}

\* resources.json, keywords.json, config.json of the runs that report
Configs ==
    { [resources |-> << Resource(AllKeys, Str_H, "html", <<"h">>) >>,
       keywords |-> << Str_Py >>,
       telegram |-> DefaultTelegram],
      [resources |-> << Resource(AllKeys, Str_Long, "html", <<"l">>) >>,
       keywords |-> << Str_Go, Str_py >>,
       telegram |-> TerseTelegram] }

\* resources.json, keywords.json, config.json of the runs that only scan:
\* the second has a descriptor without "name"
ScanConfigs ==
    { [resources |-> << Resource(AllKeys, Str_R, "rss", <<"r">>),
                        Resource(AllKeys, Str_H, "html", <<"h">>) >>,
       keywords |-> << Str_Py >>,
       telegram |-> DefaultTelegram],
      [resources |-> << Resource(AllKeys, Str_H, "html", <<"h">>),
                        Resource({"type", "url"}, <<>>, "rss", <<"r">>),
                        Resource(AllKeys, Str_R, "html", <<"r">>) >>,
       keywords |-> << Str_py >>,
       telegram |-> DefaultTelegram],
      [resources |-> << Resource({"name", "url"}, Str_R, "", <<"r">>),
                        Resource(AllKeys, Str_R, "feed", <<"r">>),
                        Resource(AllKeys, Str_H, "html", <<"h">>) >>,
       keywords |-> << >>,
       telegram |-> DefaultTelegram] }

Entry(title, description, link, published) ==
    [title |-> title, description |-> description, link |-> link,
     published |-> published]

Container(title_elem, title, description, link, location) ==
    [title_elem |-> title_elem, title |-> title, description |-> description,
     link |-> link, location |-> location]

\* the entries feeds may hold and the containers pages may hold
Web ==
    [rss |-> { Entry(Str_py, Str_remote, <<"/", "a">>, <<0>>),
               Entry(<<>>, <<>>, <<>>, None) },
     html |-> { Container(TRUE, Str_Py, <<>>, <<"/", "a">>, Str_Remote),
                Container(TRUE, Str_Go, <<>>, <<"/", "b">>, Str_remote),
                Container(TRUE, Str_py, <<"d", "-", "e">>, <<"/", "c">>, <<>>),
                Container(TRUE, Str_py, <<BLK>>, <<"/", "d">>, Str_Poland),
                Container(FALSE, <<>>, <<>>, <<>>, <<>>) }]

\* the pages of the runs that report: postings that pass the filters, two
\* of them with a long company, and one that does not pass
ReportWeb ==
    [rss |-> {Entry(Str_py, Str_remote, <<"/", "a">>, <<0>>)},
     html |-> { Container(TRUE, Str_Py, <<>>, <<"/", "a">>, Str_Remote),
                Container(TRUE, Str_Go, <<>>, <<"/", "b">>, Str_remote),
                Container(TRUE, Str_py, <<BLK>>, <<"/", "d">>, Str_remote),
                Container(TRUE, Str_py, <<BLK, "-", "q">>, <<"/", "e">>, Str_Poland) }]

\* the lists of at most n elements of S
SeqsUpTo(S, n) ==
    UNION {[1..k -> S] : k \in 0..n}

\* what a fetch of `resource` may find; a descriptor that is not fetched
\* finds nothing
Found(resource, web) ==
    IF ~Fetches(resource) THEN {[ok |-> FALSE, items |-> <<>>]}
    ELSE {[ok |-> FALSE, items |-> <<>>]}
         \cup {[ok |-> TRUE, items |-> items] :
                 items \in SeqsUpTo(IF resource.type = "rss" THEN web.rss
                                    ELSE web.html, MaxFetch)}

\* what the fetches of one scan may find, source by source
RECURSIVE FoundFrom(_, _, _)
FoundFrom(cfg, web, i) ==
    IF i > Len(cfg.resources) THEN {<<>>}
    ELSE {<<f>> \o rest : f \in Found(cfg.resources[i], web),
                          rest \in FoundFrom(cfg, web, i + 1)}

FoundAll(cfg, web) ==
    FoundFrom(cfg, web, 1)

----------------------------------------------------------------------------
(* The program: a process (JobMonitor) that scans and reports *)

NoEvent ==
    [op |-> "none"]

\* no add_job call is under way
NoCalls ==
    <<>>

Init ==
    /\ table = <<>>
    /\ calls = NoCalls
    /\ now = 0
    /\ stats = InitStats
    /\ config \in Configs
    /\ ev = NoEvent

\* time passes
Tick ==
    /\ \E t \in Instants : t > now /\ now' = t
    /\ UNCHANGED <<table, stats, config, ev, calls>>

\* main(): a new process, JobMonitor.__init__
Start ==
    /\ stats' = InitStats
    /\ ev' = [op |-> "start"]
    /\ UNCHANGED <<table, now, config, calls>>

\* await monitor.scan_all_sources(), the feeds and pages being those of `web`
ScanStep(web, cap) ==
    \E fetched \in FoundAll(config, web) :
        \E s \in {scan_all_sources(config, table, stats, fetched, now)} :
            /\ Len(s.table) <= MaxRows
            /\ s.stats.total_viewed <= cap
            /\ table' = s.table
            /\ stats' = s.stats
            /\ ev' = [op |-> "scan", raw |-> s.raw, calls |-> s.calls,
                      visited |-> s.visited, aborted |-> s.aborted]
            /\ UNCHANGED <<now, config, calls>>

\* await monitor.send_daily_report(); `accept` says which sends the
\* endpoint accepts; `stopped`: the process is stopped after send_digest
\* returned True and before mark_as_sent
Report ==
    \E new_jobs \in get_new_jobs(table, now, 24) :
        \E digest \in {create_digest(config.telegram, new_jobs, stats, now)} :
            \E accept \in [1..Len(Messages(digest)) -> BOOLEAN], stopped \in BOOLEAN :
                LET ok == new_jobs # <<>> /\ send_digest(digest, accept)
                IN  /\ stopped => ok
                    /\ table' = send_daily_report(config, table, stats, new_jobs,
                                                  accept, stopped, now)
                    /\ ev' = [op |-> "report", at |-> now, accept |-> accept,
                              stopped |-> stopped,
                              rendered |-> IF new_jobs = <<>> THEN {}
                                           ELSE Rendered(digest)]
                    /\ UNCHANGED <<now, stats, config, calls>>

Scan ==
    ScanStep(ReportWeb, MaxViewed)

Next ==
    \/ Tick
    \/ Start
    \/ Scan
    \/ Report

Spec ==
    Init /\ [][Next]_vars

(* The runs that only scan: any feeds and pages, any descriptors *)

InitScan ==
    /\ table = <<>>
    /\ calls = NoCalls
    /\ now = 0
    /\ stats = InitStats
    /\ config \in ScanConfigs
    /\ ev = NoEvent

ScanAny ==
    ScanStep(Web, MaxScanViewed)

NextScan ==
    \/ Start
    \/ ScanAny

SpecScan ==
    InitScan /\ [][NextScan]_vars

(* The store alone: any caller of DatabaseManager *)

\* load_config when no file is found
NoConfig ==
    [resources |-> <<>>, keywords |-> <<>>, telegram |-> DefaultTelegram]

\* the postings callers insert: the first two have the same title, link and
\* source and differ in every other field; the last differs in source only
StorePostings ==
    { Job(Str_Py, <<>>, <<"/", "a">>, Str_H, Str_Remote, <<>>, <<>>, None, 0),
      Job(Str_Py, <<"d">>, <<"/", "a">>, Str_H, <<>>, <<"c">>, <<"t">>, <<0>>, 0),
      Job(Str_Go, <<>>, <<"/", "b">>, Str_H, Str_remote, <<>>, <<>>, None, 0),
      Job(Str_Py, <<>>, <<"/", "a">>, Str_R, Str_Remote, <<>>, <<>>, None, 0) }

\* the hashes callers list: one of them is the hash of no posting
StoreHashes ==
    {get_hash(p) : p \in StorePostings} \cup {<<"0">>}

InitStore ==
    /\ table = <<>>
    /\ calls = NoCalls
    /\ now = 0
    /\ stats = InitStats
    /\ config = NoConfig
    /\ ev = NoEvent

\* db.add_job(job), the job made now
AddJob ==
    \E p \in StorePostings :
        \E r \in {add_job(table, [p EXCEPT !.created_at = now])} :
            /\ Len(r.table) <= MaxStoreRows
            /\ table' = r.table
            /\ ev' = [op |-> "add_job", job |-> [p EXCEPT !.created_at = now],
                      ret |-> r.ret]
            /\ UNCHANGED <<now, stats, config, calls>>

\* db.mark_as_sent(job_hashes)
MarkAsSent ==
    \E job_hashes \in SeqsUpTo(StoreHashes, MaxMarked) :
        /\ table' = mark_as_sent(table, job_hashes)
        /\ ev' = [op |-> "mark_as_sent", job_hashes |-> job_hashes]
        /\ UNCHANGED <<now, stats, config, calls>>

\* db.get_new_jobs(24)
GetNewJobs ==
    \E jobs \in get_new_jobs(table, now, 24) :
        /\ ev' = [op |-> "get_new_jobs", at |-> now, ret |-> jobs]
        /\ UNCHANGED <<table, now, stats, config, calls>>

NextStore ==
    \/ Tick
    \/ AddJob
    \/ MarkAsSent
    \/ GetNewJobs

SpecStore ==
    InitStore /\ [][NextStore]_vars


(* The keyword filter alone: any JobFilter asked about any posting *)

\* the characters of the keywords and postings handed to the filter
FilterChars ==
    {"p", "Y", " "}

\* Job(title, description, link, source, tags=tags)
FilterJobs ==
    { Job(title, description, <<"/", "a">>, Str_H, <<>>, <<>>, tags, None, 0) :
        title \in SeqsUpTo(FilterChars, MaxWordLen),
        description \in SeqsUpTo(FilterChars, MaxFieldLen),
        tags \in SeqsUpTo(FilterChars, MaxFieldLen) }

\* the keyword lists of a configuration
KeywordLists ==
    SeqsUpTo(SeqsUpTo(FilterChars, MaxWordLen), MaxKeywords)

InitFilter ==
    /\ table = <<>>
    /\ calls = NoCalls
    /\ now = 0
    /\ stats = InitStats
    /\ config \in {[NoConfig EXCEPT !.keywords = kws] : kws \in KeywordLists}
    /\ ev \in {[op |-> "job", job |-> j] : j \in FilterJobs}

\* JobFilter(config.keywords).matches(job)
Matches ==
    /\ ev.op = "job"
    /\ ev' = [op |-> "matches", job |-> ev.job,
              ret |-> matches(job_filter(config), ev.job)]
    /\ UNCHANGED <<table, now, stats, config, calls>>

NextFilter ==
    Matches

SpecFilter ==
    InitFilter /\ [][NextFilter]_vars


(* The location filter alone: any JobLocationFilter asked about any posting *)

\* the characters of the allowed substrings
AllowedChars ==
    {"r", "R"}

\* the allow-lists a JobLocationFilter is built from; "" may be an entry
AllowLists ==
    SeqsUpTo(SeqsUpTo(AllowedChars, MaxLocationLen), MaxAllowed)

\* Job(title, description, link, source, location=location); a missing
\* location (None) and the empty one are both <<>>: `job.location or ''`
LocationJobs ==
    { Job(Str_Py, <<>>, <<"/", "a">>, Str_H, location, <<>>, <<>>, None, 0) :
        location \in SeqsUpTo(AllowedChars \cup {"e"}, MaxLocationLen) }

InitLocation ==
    /\ table = <<>>
    /\ calls = NoCalls
    /\ now = 0
    /\ stats = InitStats
    /\ config = NoConfig
    /\ ev \in {[op |-> "location", allowed |-> al, job |-> j] :
                 al \in AllowLists, j \in LocationJobs}

\* JobLocationFilter(allowed).is_location_allowed(job)
IsLocationAllowed ==
    /\ ev.op = "location"
    /\ ev' = [op |-> "is_location_allowed", allowed |-> ev.allowed, job |-> ev.job,
              ret |-> is_location_allowed(LowerAll(ev.allowed), ev.job)]
    /\ UNCHANGED <<table, now, stats, config, calls>>

NextLocation ==
    IsLocationAllowed

SpecLocation ==
    InitLocation /\ [][NextLocation]_vars


(* The sender alone: any text handed to split_digest or send_digest *)

\* the lines of the texts: empty, blanks only, indented, long, and longer
\* than a message may be
LineShapes ==
    { [len |-> 0, lead |-> 0], [len |-> 3, lead |-> 3], [len |-> 5, lead |-> 3],
      [len |-> BlockLen, lead |-> 0], [len |-> max_message_length + 4, lead |-> 0] }

\* the text of the lines `shapes`, ending with "\n" or not; line i is
\* numbered i
Text(shapes, ends_nl) ==
    [i \in 1..Len(shapes) |->
        [TextLine("line", shapes[i].len, shapes[i].lead, <<>>, i)
            EXCEPT !.nl = (i < Len(shapes) \/ ends_nl)]]

DigestTexts ==
    {Text(shapes, ends_nl) : shapes \in SeqsUpTo(LineShapes, MaxLines),
                             ends_nl \in BOOLEAN}

InitSend ==
    /\ table = <<>>
    /\ calls = NoCalls
    /\ now = 0
    /\ stats = InitStats
    /\ config = NoConfig
    /\ ev \in {[op |-> "digest", digest |-> d] : d \in DigestTexts}

\* bot.split_digest(digest)
SplitDigest ==
    /\ ev.op = "digest"
    /\ ev' = [op |-> "split_digest", digest |-> ev.digest,
              parts |-> split_digest(ev.digest)]
    /\ UNCHANGED <<table, now, stats, config, calls>>

\* await bot.send_digest(digest)
SendDigest ==
    /\ ev.op = "digest"
    /\ \E accept \in [1..Len(Messages(ev.digest)) -> BOOLEAN] :
           ev' = [op |-> "send_digest", digest |-> ev.digest, accept |-> accept,
                  sent |-> Sends(ev.digest, accept),
                  ret |-> send_digest(ev.digest, accept)]
    /\ UNCHANGED <<table, now, stats, config, calls>>

NextSend ==
    \/ SplitDigest
    \/ SendDigest

SpecSend ==
    InitSend /\ [][NextSend]_vars


(* The composer alone: any posting list handed to create_digest *)

\* the telegram sections of config.json: the default, and smaller
\* max_jobs_per_source
DigestTelegrams ==
    {[DefaultTelegram EXCEPT !.max_jobs_per_source = n] : n \in {1, 2, 10}}

\* postings of two sources whose lines are short, long, and longer than the
\* size budget
DigestPostings ==
    { Job(Str_py, <<>>, <<"/", l[1]>>, source, <<>>, l[2], <<>>, None, 0) :
        source \in {Str_H, Str_R},
        l \in { <<"a", <<>>>>, <<"b", <<BLK>>>>, <<"c", <<BLK, BLK>>>> } }

InitDigest ==
    /\ table = <<>>
    /\ calls = NoCalls
    /\ now = 0
    /\ stats = InitStats
    /\ config \in {[NoConfig EXCEPT !.telegram = tg] : tg \in DigestTelegrams}
    /\ ev \in {[op |-> "jobs", jobs |-> jobs] :
                 jobs \in SeqsUpTo(DigestPostings, MaxJobs)}

\* bot.create_digest(jobs, stats), called now
CreateDigest ==
    /\ ev' = [op |-> "create_digest", jobs |-> ev.jobs, at |-> now,
              text |-> create_digest(config.telegram, ev.jobs, stats, now)]
    /\ UNCHANGED <<table, now, stats, config, calls>>

NextDigest ==
    \/ Tick
    \/ CreateDigest

SpecDigest ==
    InitDigest /\ [][NextDigest]_vars


(* Overlapping writers: processes that call add_job at the same time.  Each
   call is three steps of its connection: the call is made and job_data
   built; the INSERT takes SQLite's write lock and tests the UNIQUE
   constraint; the commit makes the row visible and frees the lock.  While
   a connection holds the write lock the INSERT of another waits, and when
   it has waited longer than the connection's timeout it raises
   sqlite3.OperationalError. *)

\* the postings the writers insert: the first two have the same title, link
\* and source
WriterPostings ==
    { Job(Str_Py, <<>>, <<"/", "a">>, Str_H, Str_Remote, <<>>, <<>>, None, 0),
      Job(Str_Py, <<"d">>, <<"/", "a">>, Str_H, Str_remote, <<"c">>, <<>>, None, 0),
      Job(Str_Go, <<>>, <<"/", "b">>, Str_H, Str_remote, <<>>, <<>>, None, 0) }

Writers ==
    1..MaxWriters

\* a connection other than w's holds the write lock
WriteLocked(w) ==
    \E v \in Writers \ {w} : calls[v].pc = "inserted"

InitWriters ==
    /\ table = <<>>
    /\ calls = [w \in Writers |-> [pc |-> "idle"]]
    /\ now = 0
    /\ stats = InitStats
    /\ config = NoConfig
    /\ ev = NoEvent

\* writer w calls db.add_job(job): job_data and its hash are built
Call(w) ==
    /\ calls[w].pc = "idle"
    /\ \E p \in WriterPostings :
           calls' = [calls EXCEPT ![w] = [pc |-> "connected", job |-> p]]
    /\ UNCHANGED <<table, now, stats, config, ev>>

\* conn.execute(INSERT ...) of writer w with the write lock free: on a
\* duplicate hash sqlite3.IntegrityError, the transaction is rolled back
\* and add_job returns False; otherwise the row waits for the commit
Insert(w) ==
    /\ calls[w].pc = "connected"
    /\ ~WriteLocked(w)
    /\ calls' = [calls EXCEPT ![w] =
                   IF add_job(table, calls[w].job).ret
                   THEN [pc |-> "inserted", job |-> calls[w].job]
                   ELSE [pc |-> "done", job |-> calls[w].job, ret |-> "False"]]
    /\ UNCHANGED <<table, now, stats, config, ev>>

\* conn.execute(INSERT ...) of writer w that waited for the write lock
\* longer than the timeout: sqlite3.OperationalError, which the handler of
\* add_job does not catch
Timeout(w) ==
    /\ calls[w].pc = "connected"
    /\ WriteLocked(w)
    /\ calls' = [calls EXCEPT ![w] = [pc |-> "done", job |-> calls[w].job,
                                      ret |-> "OperationalError"]]
    /\ UNCHANGED <<table, now, stats, config, ev>>

\* conn.commit() of writer w, and return True
Commit(w) ==
    /\ calls[w].pc = "inserted"
    /\ table' = add_job(table, calls[w].job).table
    /\ calls' = [calls EXCEPT ![w] = [pc |-> "done", job |-> calls[w].job,
                                      ret |-> "True"]]
    /\ UNCHANGED <<now, stats, config, ev>>

NextWriters ==
    \E w \in Writers : Call(w) \/ Insert(w) \/ Timeout(w) \/ Commit(w)

SpecWriters ==
    InitWriters /\ [][NextWriters]_vars

----------------------------------------------------------------------------
(* Claims about the store *)

SameTriple(a, b) ==
    a.title = b.title /\ a.link = b.link /\ a.source = b.source

\* the columns of the row that add_job(job) inserts
RowOf(row, job) ==
    /\ row.title = job.title /\ row.description = job.description
    /\ row.link = job.link /\ row.source = job.source
    /\ row.location = job.location /\ row.company = job.company
    /\ row.tags = job.tags /\ row.hash = get_hash(job)
    /\ row.sent_to_telegram = FALSE /\ row.at = job.created_at

\* a step of add_job: the clock stands and the last operation is add_job
AddJobStep ==
    now' = now /\ ev'.op = "add_job"

\* C1: the store never holds two rows of one fingerprint; add_job(p)
\* returns False and changes no row when a row of p's fingerprint (a row of
\* p's title, link and source) is stored, whatever p's other fields, and
\* otherwise returns True and appends exactly the row of p.
C1_OneRowPerFingerprint ==
    /\ [](\A i, j \in 1..Len(table) :
            (table[i].hash = table[j].hash \/ SameTriple(table[i], table[j]))
                => i = j)
    /\ [][AddJobStep =>
            IF \E i \in 1..Len(table) :
                   \/ table[i].hash = get_hash(ev'.job)
                   \/ SameTriple(table[i], ev'.job)
            THEN ev'.ret = FALSE /\ table' = table
            ELSE /\ ev'.ret = TRUE
                 /\ Len(table') = Len(table) + 1
                 /\ SubSeq(table', 1, Len(table)) = table
                 /\ RowOf(table'[Len(table')], ev'.job)]_vars

\* C1's case: p is stored, q of the same title, link and source and of
\* another description was refused, and one row is stored
C1_Witness ==
    /\ ev.op = "add_job" /\ ev.ret = FALSE
    /\ Len(table) = 1
    /\ SameTriple(table[1], ev.job)
    /\ table[1].description # ev.job.description
    /\ table[1].location # ev.job.location

\* a step of mark_as_sent
MarkAsSentStep ==
    now' = now /\ ev'.op = "mark_as_sent"

Listed(job_hashes, h) ==
    \E k \in 1..Len(job_hashes) : job_hashes[k] = h

\* C8: mark_as_sent(hashes) sets the flag of the rows whose hash is listed
\* and changes nothing else: the other rows keep their flag, every other
\* column of every row is as before, and no row is made or removed.
C8_MarkAsSentFrame ==
    [][MarkAsSentStep =>
        /\ Len(table') = Len(table)
        /\ \A i \in 1..Len(table) :
             table'[i] = [table[i] EXCEPT !.sent_to_telegram =
                            @ \/ Listed(ev'.job_hashes, table[i].hash)]]_vars

\* C8's case: a stored hash and a hash of no row were listed; the listed
\* row is marked and another row is not
C8_Witness ==
    /\ ev.op = "mark_as_sent"
    /\ \E k \in 1..Len(ev.job_hashes) : ev.job_hashes[k] \notin Hashes(table)
    /\ \E i, j \in 1..Len(table) :
         /\ Listed(ev.job_hashes, table[i].hash) /\ table[i].sent_to_telegram
         /\ ~Listed(ev.job_hashes, table[j].hash) /\ ~table[j].sent_to_telegram

\* the rows ingested less than `hours` hours before now and not delivered
Fresh(hours) ==
    {i \in 1..Len(table) :
        table[i].at > now - Window(hours) /\ ~table[i].sent_to_telegram}

\* C9: get_new_jobs(24) returns each stored posting that was ingested less
\* than 24 hours ago and is not delivered, once, with its fields and its
\* ingestion instant, and no other posting, latest ingestion first.
C9_GetNewJobs ==
    (ev.op = "get_new_jobs" /\ ev.at = now) =>
        /\ Len(ev.ret) = Cardinality(Fresh(24))
        /\ \A i \in Fresh(24) : \E k \in 1..Len(ev.ret) :
             /\ RowOf([table[i] EXCEPT !.sent_to_telegram = FALSE], ev.ret[k])
             /\ ev.ret[k].published =
                  (IF table[i].published = None THEN None
                   ELSE <<fromisoformat(table[i].published)>>)
        /\ \A k, l \in 1..Len(ev.ret) :
             k < l => ev.ret[k].created_at >= ev.ret[l].created_at

\* C9's case: two postings of different instants are returned, a posting
\* ingested exactly 24 hours ago and a delivered one are not
C9_Witness ==
    /\ ev.op = "get_new_jobs" /\ ev.at = now
    /\ Len(ev.ret) = 2
    /\ ev.ret[1].created_at > ev.ret[2].created_at
    /\ Len(table) = 3
    /\ \E i \in 1..Len(table) :
         table[i].at = now - Window(24) \/ table[i].sent_to_telegram

----------------------------------------------------------------------------
(* Claims about the report run *)

\* a step of send_daily_report
ReportStep ==
    now' = now /\ ev'.op = "report"

\* some send of the run was not accepted
Rejected(e) ==
    \E i \in DOMAIN e.accept : ~e.accept[i]

\* C2: a report run in which the endpoint does not accept some message of
\* the digest (the only one, or the first, a middle or the last part)
\* leaves the table as it was: nothing is marked delivered.
C2_FailedDeliveryMarksNothing ==
    [][(ReportStep /\ Rejected(ev')) => table' = table]_vars

\* C2's case: the digest of a stored, undelivered posting went out in three
\* parts and the endpoint refused the second only
C2_Witness ==
    /\ ev.op = "report" /\ ev.at = now
    /\ DOMAIN ev.accept = 1..3
    /\ ev.accept[1] /\ ~ev.accept[2] /\ ev.accept[3]
    /\ Selected(table, now, 24) # {}

\* C3: a report run sets the delivered flag only of postings that its
\* digest shows as a numbered line, and only when every message of the
\* digest was accepted.
C3_MarkedOnlyIfShown ==
    [][ReportStep =>
        \A i \in 1..Len(table) :
            (table'[i].sent_to_telegram /\ ~table[i].sent_to_telegram)
                => (table[i].hash \in ev'.rendered /\ ~Rejected(ev'))]_vars

\* the hashes get_new_jobs(24) returns at instant t
Queried(tbl, t) ==
    {tbl[i].hash : i \in Selected(tbl, t, 24)}

\* C4: the postings of a report run that did not deliver, or that was
\* stopped before mark_as_sent, are returned again by the query of the
\* report run that follows.
C4_FailedRunIsQueriedAgain ==
    [][(ReportStep /\ ev.op = "report" /\ (Rejected(ev) \/ ev.stopped))
          => Queried(table, ev.at) \subseteq Queried(table, now)]_vars

----------------------------------------------------------------------------
(* Claims about the scan *)

\* a step of scan_all_sources
ScanTaken ==
    now' = now /\ ev'.op = "scan"

\* C5: every row a scan adds is a posting that the keyword filter matches
\* and whose location the location filter allows; the rows stored before
\* stay as they were.
C5_PersistedPassedBothFilters ==
    [][ScanTaken =>
        /\ Len(table') >= Len(table)
        /\ SubSeq(table', 1, Len(table)) = table
        /\ \A i \in (Len(table) + 1)..Len(table') :
             /\ matches(LowerAll(config.keywords), RowJob(table'[i]))
             /\ is_location_allowed(location_filter, RowJob(table'[i]))]_vars

\* C5's case: a scan viewed three postings, offered one of them to add_job
\* and stored it
C5_Witness ==
    /\ ev.op = "scan" /\ ev.raw = 3 /\ ev.calls = 1
    /\ Len(table) = 1
    /\ stats.total_viewed = 3 /\ stats.total_added = 1

\* C6: a scan raises total_viewed by the number of postings its fetchers
\* returned and total_added by the number of rows it added.
C6_ScanCounters ==
    [][ScanTaken =>
        /\ stats'.total_viewed = stats.total_viewed + ev'.raw
        /\ stats'.total_added = stats.total_added + (Len(table') - Len(table))]_vars

\* C6's case: the first scan of a process on an empty table: three postings
\* returned, two of them stored
C6_Witness ==
    /\ ev.op = "scan" /\ ev.raw = 3
    /\ stats.total_viewed = 3 /\ stats.total_added = 2
    /\ Len(table) = 2

\* C7: a scan visits every descriptor of the list and ends normally,
\* whatever went wrong with one of them.
C7_ScanVisitsEverySource ==
    ev.op = "scan" => (~ev.aborted /\ ev.visited = Len(config.resources))

----------------------------------------------------------------------------
(* Claims about the keyword filter *)

\* the characters of a string
Chars(s) ==
    {s[i] : i \in 1..Len(s)}

\* keyword kw occurs in text when case is ignored
Occurs(kw, text) ==
    \E i \in 0..(Len(text) - Len(kw)) :
        \A j \in 1..Len(kw) : LowerChar(text[i + j]) = LowerChar(kw[j])

\* some keyword of the configuration occurs in text
SomeKeywordIn(text) ==
    \E k \in 1..Len(config.keywords) : Occurs(config.keywords[k], text)

\* C10, as stated: matches(posting) is true exactly when some keyword
\* occurs, case ignored, in title, description and tags written one after
\* the other; with no keywords it is false.
C10_MatchesConcatenation ==
    ev.op = "matches" =>
        /\ ev.ret = SomeKeywordIn(ev.job.title \o ev.job.description \o ev.job.tags)
        /\ (config.keywords = <<>> => ~ev.ret)

\* C10, amended: matches(posting) is true exactly when some keyword occurs,
\* case ignored, in title, description and tags joined by single spaces;
\* with no keywords it is false.
C10_MatchesSpaceJoined ==
    ev.op = "matches" =>
        /\ ev.ret = SomeKeywordIn(ev.job.title \o <<" ">> \o ev.job.description
                                    \o <<" ">> \o ev.job.tags)
        /\ (config.keywords = <<>> => ~ev.ret)

\* C10's case: a posting matched through a keyword with a capital letter
\* that does not occur in title, description and tags written one after
\* the other
C10_Witness ==
    /\ ev.op = "matches" /\ ev.ret
    /\ \E k \in 1..Len(config.keywords) : "Y" \in Chars(config.keywords[k])
    /\ ~SomeKeywordIn(ev.job.title \o ev.job.description \o ev.job.tags)

----------------------------------------------------------------------------
(* Claims about the location filter *)

\* C11: is_location_allowed is false for a posting whose location is empty
\* or missing, whatever the allow-list holds; for a non-empty location it is
\* true exactly when some allowed substring occurs in it, case ignored.
C11_EmptyLocationNeverAllowed ==
    ev.op = "is_location_allowed" =>
        IF ev.job.location = <<>>
        THEN ~ev.ret
        ELSE ev.ret = (\E k \in 1..Len(ev.allowed) :
                          Occurs(ev.allowed[k], ev.job.location))

----------------------------------------------------------------------------
(* Claims about the sender *)

\* a call of send_digest with a text longer than one message
LongDigestSent ==
    ev.op = "send_digest" /\ TextLen(ev.digest) > max_message_length

\* C12: for a text of more than 4096 characters send_digest makes at least
\* two sends, every message is at most 4096 characters long, and message i
\* starts with the part indicator (i/N).
C12_LongDigestInBoundedParts ==
    LongDigestSent =>
        /\ Len(ev.sent) >= 2
        /\ \A i \in 1..Len(ev.sent) :
             /\ TextLen(ev.sent[i]) <= max_message_length
             /\ ev.sent[i] # <<>>
             /\ ev.sent[i][1].kind = "part"
             /\ ev.sent[i][1].num = i

\* C13: every part split_digest returns is at most 4096 - 200 characters
\* long; a line is cut only when it alone is longer than that, and every
\* such line is cut and returned as a part of its own, also when lines were
\* already accumulated before it.
C13_PartsWithinBudget ==
    ev.op = "split_digest" =>
        /\ \A p \in 1..Len(ev.parts) :
             /\ TextLen(ev.parts[p]) <= max_message_length - Reserve
             /\ \A l \in 1..Len(ev.parts[p]) :
                  ev.parts[p][l].cut =>
                      /\ ev.digest[ev.parts[p][l].num].len > max_message_length - Reserve
                      /\ Len(ev.parts[p]) = 1
        /\ \A i \in 1..Len(ev.digest) :
             ev.digest[i].len > max_message_length - Reserve =>
                 \E p \in 1..Len(ev.parts) :
                     /\ Len(ev.parts[p]) = 1
                     /\ ev.parts[p][1].num = i
                     /\ ev.parts[p][1].cut

\* the lines of the parts, one part after the other
RECURSIVE Flatten(_)
Flatten(parts) ==
    IF parts = <<>> THEN <<>> ELSE Head(parts) \o Flatten(Tail(parts))

\* the message without its part indicator
Content(message) ==
    IF message # <<>> /\ message[1].kind = "part"
    THEN SubSeq(message, 3, Len(message)) ELSE message

\* the messages without their part indicators
Contents(messages) ==
    [i \in 1..Len(messages) |-> Content(messages[i])]

\* line b is line a as it was written, or line a cut with the ellipsis
SameLine(a, b) ==
    /\ b.num = a.num /\ b.kind = a.kind
    /\ (b.cut \/ (b.len = a.len /\ b.lead = a.lead))

\* C14: for a text of more than 4096 characters, the messages send_digest
\* sends, part indicators removed and put one after the other, are the
\* lines of the text in their order: none lost, repeated, moved or changed,
\* cut lines apart.
C14_SplitRoundTrip ==
    LongDigestSent =>
        /\ Len(Flatten(Contents(ev.sent))) = Len(ev.digest)
        /\ \A i \in 1..Len(ev.digest) :
             SameLine(ev.digest[i], Flatten(Contents(ev.sent))[i])

\* every send of the call was accepted
AllAccepted ==
    \A i \in 1..Len(ev.sent) : ev.accept[i]

\* a text of at most 4096 characters goes out unchanged, in one send
ShortDigestSentAsIs ==
    TextLen(ev.digest) <= max_message_length => ev.sent = <<ev.digest>>

\* message i is part i of split_digest under its indicator
SentInPartOrder ==
    \A i \in 1..Len(ev.sent) :
        ev.sent[i] = part_header(i, Len(split_digest(ev.digest)))
                        \o split_digest(ev.digest)[i]

\* the first send the endpoint refused, 0 when it refused none
FirstRefused ==
    IF AllAccepted THEN 0
    ELSE CHOOSE i \in 1..Len(ev.sent) :
             ~ev.accept[i] /\ \A j \in 1..(i - 1) : ev.accept[j]

\* C15, as stated: send_digest returns True exactly when every send it
\* made was accepted; a short text is one send of the text as it is; a
\* long text is sent part by part and the call returns at the first part
\* that is refused, so that no part after it is sent.
C15_ReturnsAtFirstRefusal ==
    ev.op = "send_digest" =>
        /\ ev.ret = AllAccepted
        /\ ShortDigestSentAsIs
        /\ LongDigestSent =>
             /\ SentInPartOrder
             /\ Len(ev.sent) = IF AllAccepted THEN Len(split_digest(ev.digest))
                               ELSE FirstRefused

\* C15, amended: send_digest returns True exactly when every send it made
\* was accepted; a short text is one send of the text as it is; a long
\* text is sent part by part, every part of it, also after a part was
\* refused.
C15_SendsEveryPart ==
    ev.op = "send_digest" =>
        /\ ev.ret = AllAccepted
        /\ ShortDigestSentAsIs
        /\ LongDigestSent =>
             /\ SentInPartOrder
             /\ Len(ev.sent) = Len(split_digest(ev.digest))

\* C15's case: a text sent in three parts of which the endpoint refused
\* the first only
C15_Witness ==
    /\ LongDigestSent
    /\ Len(ev.sent) = 3
    /\ ~ev.accept[1] /\ ev.accept[2] /\ ev.accept[3]
    /\ ~ev.ret

----------------------------------------------------------------------------
(* Claims about the composer *)

\* the sources that have a section in the text
Sections(text) ==
    {text[j].ref : j \in {n \in 1..Len(text) : text[n].kind = "section"}}

\* where the section of `source` starts, and the empty line that ends it
SectionStart(text, source) ==
    CHOOSE j \in 1..Len(text) : text[j].kind = "section" /\ text[j].ref = source

SectionEnd(text, source) ==
    CHOOSE j \in (SectionStart(text, source) + 1)..Len(text) :
        /\ text[j].kind = "blank"
        /\ \A n \in (SectionStart(text, source) + 1)..(j - 1) : text[n].kind # "blank"

\* the lines of the section of `source` after its heading
SectionLines(text, source) ==
    SubSeq(text, SectionStart(text, source) + 1, SectionEnd(text, source) - 1)

IsJobLine(line) == line.kind = "job"
IsMoreLine(line) == line.kind = "more"

\* the numbered lines and the suffixes of the section of `source`
Shown(text, source) ==
    SelectSeq(SectionLines(text, source), IsJobLine)

Suffixes(text, source) ==
    SelectSeq(SectionLines(text, source), IsMoreLine)

\* the numbered lines are the first m postings of the source, in order,
\* numbered 1..m
ShowsFirst(text, jobs, source, m) ==
    /\ Len(Shown(text, source)) = m
    /\ \A i \in 1..m :
         /\ Shown(text, source)[i].num = i
         /\ Shown(text, source)[i].ref = get_hash(SourceJobs(jobs, source)[i])

\* the postings create_digest tries to show for the source: min(k, N)
Cap(jobs, source) ==
    IF Len(SourceJobs(jobs, source)) > config.telegram.max_jobs_per_source
    THEN config.telegram.max_jobs_per_source
    ELSE Len(SourceJobs(jobs, source))

\* the postings of the source beyond the per-source maximum: k - N
Hidden(jobs, source) ==
    Len(SourceJobs(jobs, source)) - config.telegram.max_jobs_per_source

NothingWithheld(text, jobs, source) ==
    Len(Shown(text, source)) = Cap(jobs, source)

C17_SameInputSameText ==
    [][(ev.op = "create_digest" /\ ev'.op = "create_digest"
            /\ ev'.jobs = ev.jobs /\ stats' = stats /\ config' = config)
          => ev'.text = ev.text]_vars

\* the size budget withheld a line of the section of `source`
Withheld(text, jobs, source) ==
    Len(Shown(text, source)) < Cap(jobs, source)

\* C18: when the size budget withholds a line of a section, the section
\* shows the postings before it and has one suffix "n more", n the number
\* of the source's postings it does not show, whether the source has more
\* postings than the per-source maximum or not.
C18_WithheldLinesCounted ==
    ev.op = "create_digest" =>
        \A source \in Sections(ev.text) :
            Withheld(ev.text, ev.jobs, source) =>
                /\ ShowsFirst(ev.text, ev.jobs, source, Len(Shown(ev.text, source)))
                /\ Suffixes(ev.text, source)
                     = <<MoreLine(Len(SourceJobs(ev.jobs, source))
                                    - Len(Shown(ev.text, source)))>>

\* C19: after a section in which the size budget withheld a line, the text
\* has no heading and no numbered line of a later source.
C19_NothingAfterWithheldLine ==
    ev.op = "create_digest" =>
        \A source \in Sections(ev.text) :
            Withheld(ev.text, ev.jobs, source) =>
                \A j \in (SectionEnd(ev.text, source) + 1)..Len(ev.text) :
                    ev.text[j].kind \notin {"section", "job"}

----------------------------------------------------------------------------
(* Claims about overlapping writers *)

\* the writers whose call is for the fingerprint h
Competing(h) ==
    {w \in Writers : calls[w].pc # "idle" /\ get_hash(calls[w].job) = h}

\* those of them whose call is over with result ret
Returned(h, ret) ==
    {w \in Competing(h) : calls[w].pc = "done" /\ calls[w].ret = ret}

\* the rows of fingerprint h
RowsOf(h) ==
    {i \in 1..Len(table) : table[i].hash = h}

\* every writer has called and every call is over
AllCallsOver ==
    \A w \in Writers : calls[w].pc = "done"

WriterHashes ==
    {get_hash(p) : p \in WriterPostings}

\* C20, as stated: when overlapping calls of add_job for one fingerprint
\* are all over, the table has exactly one row of that fingerprint, exactly
\* one of the calls returned True, the others returned False, and none
\* raised.
C20_OneTrueOthersFalse ==
    AllCallsOver =>
        \A h \in WriterHashes :
            Cardinality(Competing(h)) >= 2 =>
                /\ Cardinality(RowsOf(h)) = 1
                /\ Cardinality(Returned(h, "True")) = 1
                /\ Returned(h, "False") = Competing(h) \ Returned(h, "True")

\* C20, amended: however the calls interleave, the table never has two rows
\* of one fingerprint and has a row exactly when a call for it returned
\* True, which at most one does; a call returns False only when the row is
\* there; a call that waited for the write lock beyond the timeout raises
\* sqlite3.OperationalError; and when all calls are over and one of them
\* did not raise, exactly one returned True and the table has the one row.
C20_OneRowAtMostOneTrue ==
    \A h \in WriterHashes :
        /\ Cardinality(RowsOf(h)) <= 1
        /\ Cardinality(Returned(h, "True")) = Cardinality(RowsOf(h))
        /\ Returned(h, "False") # {} => RowsOf(h) # {}
        /\ (AllCallsOver /\ Competing(h) # Returned(h, "OperationalError")) =>
               /\ Cardinality(Returned(h, "True")) = 1
               /\ Returned(h, "False")
                    = Competing(h) \ (Returned(h, "True")
                                        \cup Returned(h, "OperationalError"))

\* C20's case: two calls for one fingerprint, the postings differing in
\* their other fields, are over: one returned True, the other False, and
\* the table has one row
C20_Witness ==
    /\ AllCallsOver
    /\ \E h \in WriterHashes :
         /\ Cardinality(Competing(h)) = 2
         /\ \E v, w \in Competing(h) :
              /\ calls[v].job # calls[w].job
              /\ calls[v].ret = "True" /\ calls[w].ret = "False"
    /\ Len(table) = 1

----------------------------------------------------------------------------
(* Claims about the run statistics *)

\* C21: every call of scan_all_sources counts from zero: after a scan,
\* total_viewed is the number of postings that scan's fetchers returned and
\* total_added the number of rows that scan added, whatever earlier scans
\* of the process counted.
C21_ScanCountsFromZero ==
    [][ScanTaken =>
        /\ stats'.total_viewed = ev'.raw
        /\ stats'.total_added = Len(table') - Len(table)]_vars

----------------------------------------------------------------------------
(* Fingerprints: pairs of postings whose fields may hold the separator *)

MaxTripleLen == 2
MaxSourceLen == 1

\* the characters of titles, links and source names: a letter and the
\* separator that get_hash writes between the three fields
TripleChars ==
    {"a", "|"}

TriplePostings ==
    { Job(title, <<>>, link, source, <<>>, <<>>, <<>>, None, 0) :
        title \in SeqsUpTo(TripleChars, MaxTripleLen),
        link \in SeqsUpTo(TripleChars, MaxTripleLen),
        source \in SeqsUpTo(TripleChars, MaxSourceLen) }

\* two postings, to be stored one after the other in an empty table
InitFingerprint ==
    /\ table = <<>>
    /\ calls = NoCalls
    /\ now = 0
    /\ stats = InitStats
    /\ config = NoConfig
    /\ ev \in [op : {"postings"}, jobs : [1..2 -> TriplePostings],
               hashes : {<<>>}, rets : {<<>>}]

\* job.get_hash() and db.add_job(job) for the next posting of the pair
AddNext ==
    /\ Len(ev.rets) < Len(ev.jobs)
    /\ \E job \in {ev.jobs[Len(ev.rets) + 1]} :
           \E r \in {add_job(table, job)} :
               /\ table' = r.table
               /\ ev' = [ev EXCEPT !.op = "add_job",
                                   !.hashes = Append(@, get_hash(job)),
                                   !.rets = Append(@, r.ret)]
    /\ UNCHANGED <<now, stats, config, calls>>

NextFingerprint ==
    AddNext

SpecFingerprint ==
    InitFingerprint /\ [][NextFingerprint]_vars

----------------------------------------------------------------------------
(* Claims about the fingerprint *)

BothAdded ==
    ev.op = "add_job" /\ Len(ev.rets) = 2

\* C22: two postings whose (title, link, source) triples differ get
\* different fingerprints, and the second is stored, not rejected as a
\* duplicate of the first, also when a field holds the character '|'.
C22_FingerprintSeparatesTriples ==
    (BothAdded /\ ~SameTriple(ev.jobs[1], ev.jobs[2])) =>
        /\ ev.hashes[1] # ev.hashes[2]
        /\ ev.rets[2] = TRUE
        /\ Len(table) = 2

----------------------------------------------------------------------------
(* Claims about scan and report runs together *)

\* the fingerprints of the rows marked delivered
Delivered(tbl) ==
    {tbl[i].hash : i \in {n \in 1..Len(tbl) : tbl[n].sent_to_telegram}}

\* the row `new` is the row `old`, but for a delivered flag that was set
RowKept(old, new) ==
    /\ new = [old EXCEPT !.sent_to_telegram = new.sent_to_telegram]
    /\ old.sent_to_telegram => new.sent_to_telegram

\* C23: delivery is final. No step of a scan or report run removes a row,
\* changes a column of a stored row other than the delivered flag, or
\* clears a delivered flag; get_new_jobs never returns a posting whose row
\* is marked delivered, and no report run shows such a posting in its
\* digest, also after a later scan fetched the posting again.
C23_DeliveryIsFinal ==
    /\ [](\A jobs \in get_new_jobs(table, now, 24) :
            \A k \in 1..Len(jobs) : get_hash(jobs[k]) \notin Delivered(table))
    /\ [][/\ Len(table') >= Len(table)
          /\ \A i \in 1..Len(table) : RowKept(table[i], table'[i])
          /\ ReportStep => ev'.rendered \cap Delivered(table) = {}]_vars

\* C23's case: the posting of the only row was delivered, a later process
\* scanned it again, add_job was called for it and added nothing, and the
\* row is still marked delivered
C23_Witness ==
    /\ ev.op = "scan"
    /\ ev.calls = 1
    /\ stats.total_added = 0
    /\ Len(table) = 1
    /\ table[1].sent_to_telegram

====
